---- MODULE Spec2Model ----
(***************************************************************************)
(* Model of alternative/sde.py: the SDE variants (SimpleSDE, VESDE,        *)
(* VESDE2), their factory build(), the base engine (f, g, dw, propagate)   *)
(* and the trajectory simulator BaseSDE.sample_traj.                       *)
(*                                                                         *)
(* Numbers.  One tensor element is followed (every tensor operation of the *)
(* file is elementwise).  Grid times are the rationals k/Den, written k.   *)
(* compute_ve_g_scale = sqrt(2 ln(s_max/s_min)) is irrational, so a value  *)
(* is kept exactly as c + k*K, the record [c, k], K being that scale.      *)
(* Python indices are 0-based and kept so; a TLA+ sequence is read at      *)
(* index + 1.                                                              *)
(***************************************************************************)
EXTENDS Integers, Sequences, FiniteSets, TLC

VARIABLES
  sde,        \* the SDE instance, NoSDE before construction
  build_err,  \* the exception build() raised, "" if none
  pc,         \* where the sample_traj call stands; "idle" between calls
  ts_arg,     \* the grid the caller handed to sample_traj
  ts,         \* sample_traj's local ts: the traversed (possibly flipped) grid
  direction,  \* policy.direction
  save_traj,
  init_dist,  \* "p" or "q" once selected
  x_init,     \* what init_dist.sample() returned
  x, xs, zs, idx,
  res,        \* what sample_traj returned
  err,        \* the assertion sample_traj failed with, "" if none
  n_p, n_q,   \* p.sample() and q.sample() calls of this sample_traj call
  calls,      \* policy, randn_like and propagate calls of this call
  trace,      \* one record per loop iteration, in order
  ret         \* outcome of the last direct f / g / dw / propagate call

vars == <<sde, build_err, pc, ts_arg, ts, direction, save_traj, init_dist,
          x_init, x, xs, zs, idx, res, err, n_p, n_q, calls, trace, ret>>

callVars == <<ts_arg, ts, direction, save_traj, init_dist, x_init, x, xs, zs,
              idx, res, err, n_p, n_q, calls, trace>>

(* ------------------------------ bounds -------------------------------- *)

\* longest time grid handed to sample_traj
MaxLen == 3

\* grid resolution: the grid times are 0/Den, 1/Den, ..., Den/Den
Den == 2

(* ------------------------- values and inputs -------------------------- *)

Val(c, k) == [c |-> c, k |-> k]

Zero == Val(0, 0)

VAdd(a, b) == Val(a.c + b.c, a.k + b.k)

VScale(n, a) == Val(n * a.c, n * a.k)

None == <<>>

Some(v) == <<v>>

RECURSIVE Pow(_, _)
Pow(b, e) == IF e = 0 THEN 1 ELSE b * Pow(b, e - 1)

Sqrt(n) == CHOOSE r \in 0..n : r * r = n

Root(n, d) == CHOOSE r \in 1..n : Pow(r, d) = n

Abs(n) == IF n < 0 THEN -n ELSE n

Times == 0..Den

Grids == UNION {[1..n -> Times] : n \in 0..MaxLen}

Directions == {"forward", "backward", "sideways"}

SdeTypes == {"ve", "ve2", "simple", "vp"}

\* opt: T, interval, sde_type, sigma_min, sigma_max (train_method only picks
\* the progress bar); T/interval is a square and sigma_max/sigma_min a Den-th
\* power, so that sqrt(dt) and (s_max/s_min)^t are exact
Opts == {[T |-> c[1], interval |-> c[2], sde_type |-> s,
          sigma_min |-> 1, sigma_max |-> Pow(2, Den)] :
            c \in {<<1, 1>>, <<8, 2>>}, s \in SdeTypes}

\* values p.sample() and q.sample() can return
PSamples == {Val(1, 0), Val(2, 0)}

QSamples == {Val(-1, 0)}

\* values policy(x, t) can return
ZVals == {0, 1}

\* values torch.randn_like can draw
Noises == {-1, 1}

\* var arguments of a direct SimpleSDE(opt, p, q, var) construction
VarArgs == {0, 2}

DefaultVar == 1

(* --------------------------- SDE variants ----------------------------- *)

NoSDE == [kind |-> "none", opt |-> None, dt |-> 0, p |-> "", q |-> "",
          var |-> 0, s_min |-> 0, s_max |-> 0]

BaseSDE_init(kind, opt, p, q) ==
  [kind |-> kind, opt |-> Some(opt), dt |-> opt.T \div opt.interval,
   p |-> p, q |-> q, var |-> 0, s_min |-> 0, s_max |-> 0]

SimpleSDE_init(opt, p, q, var) ==
  [BaseSDE_init("SimpleSDE", opt, p, q) EXCEPT !.var = var]

VESDE_init(opt, p, q) ==
  [BaseSDE_init("VESDE", opt, p, q) EXCEPT !.s_min = opt.sigma_min,
                                             !.s_max = opt.sigma_max]

VESDE2_init(opt, p, q) ==
  [BaseSDE_init("VESDE2", opt, p, q) EXCEPT !.s_min = opt.sigma_min,
                                              !.s_max = opt.sigma_max]

compute_sigmas(t, s_min, s_max) == s_min * Pow(Root(s_max \div s_min, Den), t)

compute_sigmas_two_ways(t, s_min, s_max) ==
  s_min * Pow(Root(s_max \div s_min, Den), Den - Abs(2 * t - Den))

compute_ve_g_scale(s_min, s_max) == Val(0, 1)

compute_ve_diffusion(t, s_min, s_max) ==
  VScale(compute_sigmas(t, s_min, s_max), compute_ve_g_scale(s_min, s_max))

compute_ve2_diffusion(t, s_min, s_max) ==
  VScale(compute_sigmas_two_ways(t, s_min, s_max),
         compute_ve_g_scale(s_min, s_max))

_f(self, xv, t) == Zero

_g(self, t) ==
  CASE self.kind = "SimpleSDE" -> Val(self.var, 0)
    [] self.kind = "VESDE" -> compute_ve_diffusion(t, self.s_min, self.s_max)
    [] self.kind = "VESDE2" -> compute_ve2_diffusion(t, self.s_min, self.s_max)

(* ---------------------------- base engine ----------------------------- *)

f(self, xv, t, dir) ==
  LET sign == IF dir = "forward" THEN 1 ELSE -1
  IN  VScale(sign, _f(self, xv, t))

g(self, t) == _g(self, t)

\* the step size dw scales its draw by
dw_dt(self, dtArg) == IF dtArg = None THEN self.dt ELSE dtArg[1]

\* noise is the value torch.randn_like draws
dw(self, xv, dtArg, noise) == noise * Sqrt(dw_dt(self, dtArg))

\* the step size propagate multiplies the drift and control by
propagate_dt(self, dtArg) == IF dtArg = None THEN self.dt ELSE dtArg[1]

\* how many draws propagate makes itself: one unless dw is handed in
propagate_draws(dwArg) == IF dwArg = None THEN 1 ELSE 0

\* faulty variant: the noise increment added without its diffusion factor
propagate_unscaled_noise(self, t, xv, z, dir, fArg, dwArg, dtArg, noise) ==
  LET gv  == g(self, t)
      fv  == IF fArg = None THEN f(self, xv, t, dir) ELSE fArg[1]
      dtv == propagate_dt(self, dtArg)
      dwv == IF dwArg = None THEN dw(self, xv, Some(dtv), noise) ELSE dwArg[1]
  IN  VAdd(VAdd(xv, VScale(dtv, VAdd(fv, VScale(z, gv)))), Val(dwv, 0))

propagate(self, t, xv, z, dir, fArg, dwArg, dtArg, noise) ==
  LET gv  == g(self, t)
      fv  == IF fArg = None THEN f(self, xv, t, dir) ELSE fArg[1]
      dtv == propagate_dt(self, dtArg)
      dwv == IF dwArg = None THEN dw(self, xv, Some(dtv), noise) ELSE dwArg[1]
  IN  VAdd(VAdd(xv, VScale(dtv, VAdd(fv, VScale(z, gv)))), VScale(dwv, gv))

(* ------------------------------ factory ------------------------------- *)

Registry == [s \in {"ve", "ve2", "simple"} |->
               CASE s = "ve" -> "VESDE"
                 [] s = "ve2" -> "VESDE2"
                 [] s = "simple" -> "SimpleSDE"]

\* faulty variant: dict.get with a default class
RegistryGet_default(name) ==
  IF name \in DOMAIN Registry THEN Some(Registry[name]) ELSE Some("SimpleSDE")

\* dict.get: the class registered under the name, or None
RegistryGet(name) ==
  IF name \in DOMAIN Registry THEN Some(Registry[name]) ELSE None

Construct(cls, opt, p, q) ==
  CASE cls = "VESDE" -> VESDE_init(opt, p, q)
    [] cls = "VESDE2" -> VESDE2_init(opt, p, q)
    [] cls = "SimpleSDE" -> SimpleSDE_init(opt, p, q, DefaultVar)

\* build(opt, p, q): calling the looked-up class; calling None raises TypeError
build(opt) ==
  /\ pc = "idle"
  /\ sde = NoSDE
  /\ build_err = ""
  /\ LET cls == RegistryGet(opt.sde_type)
     IN  IF cls = None
         THEN /\ build_err' = "TypeError"
              /\ sde' = sde
         ELSE /\ build_err' = ""
              /\ sde' = Construct(cls[1], opt, "p", "q")
  /\ UNCHANGED <<pc, callVars, ret>>

\* SimpleSDE(opt, p, q, var) constructed directly, with an explicit var
NewSimpleSDE(opt, var) ==
  /\ pc = "idle"
  /\ sde = NoSDE
  /\ build_err = ""
  /\ sde' = SimpleSDE_init(opt, "p", "q", var)
  /\ UNCHANGED <<build_err, pc, callVars, ret>>

(* --------------------------- sample_traj ------------------------------ *)

NoBuf == [alloc |-> FALSE, data |-> <<>>]

\* torch.empty: n slots, none of them written
EmptyBuf(n) == [alloc |-> TRUE, data |-> [i \in 1..n |-> None]]

BufSet(buf, i, v) == [buf EXCEPT !.data[i + 1] = Some(v)]

NoRes == [returned |-> FALSE, xs |-> NoBuf, zs |-> NoBuf, x_term |-> None]

NoRet == [op |-> "", dir |-> "", t |-> 0, raised |-> FALSE, out |-> None]

\* faulty variant: >= in place of >
assert_nondecreasing(tsv) == \A i \in 1..Len(tsv) - 1 : tsv[i + 1] >= tsv[i]

_assert_increasing(tsv) == \A i \in 1..Len(tsv) - 1 : tsv[i + 1] > tsv[i]

\* faulty variant: the assertion on the direction left out
direction_unchecked(dir) == TRUE

direction_ok(dir) == dir \in {"forward", "backward"}

flip(tsv) == [i \in 1..Len(tsv) |-> tsv[Len(tsv) - i + 1]]

\* faulty variant: the data distribution whatever the direction
select_init_dist_p(self, dir) == self.p

select_init_dist(self, dir) == IF dir = "forward" THEN self.p ELSE self.q

traversed_ts(tsv, dir) == IF dir = "forward" THEN tsv ELSE flip(tsv)

next_t(tsv, i, t) == IF i = Len(tsv) - 1 THEN t ELSE tsv[i + 2]

\* faulty variant: the traversal index used unmirrored
t_idx_unmirrored(i, n, dir) == i

t_idx(i, n, dir) == IF dir = "forward" THEN i ELSE n - i - 1

\* faulty variant: the next grid time handed to propagate
propagate_time_next(t, tn) == tn

\* the time sample_traj hands to propagate
propagate_time(t, tn) == t

\* faulty variant: the spacing to the next grid time handed to propagate as dt
step_dt_spacing(tsv, i) ==
  IF i = Len(tsv) - 1 THEN Some(0) ELSE Some(tsv[i + 2] - tsv[i + 1])

\* the dt sample_traj hands to propagate: none
step_dt_arg(tsv, i) == None

NoCalls == [policy |-> 0, randn |-> 0, propagate |-> 0]

sample_traj_call(tsv, policy_direction, save) ==
  /\ pc = "idle"
  /\ sde # NoSDE
  /\ ret = NoRet
  /\ res = NoRes /\ err = ""
  /\ ts_arg' = tsv
  /\ direction' = policy_direction
  /\ save_traj' = save
  /\ pc' = "assert_direction"
  /\ UNCHANGED <<sde, build_err, ts, init_dist, x_init, x, xs, zs, idx, res,
                 err, n_p, n_q, calls, trace, ret>>

sample_traj_assert_direction ==
  /\ pc = "assert_direction"
  /\ IF direction_ok(direction)
     THEN pc' = "assert_increasing" /\ err' = err
     ELSE pc' = "failed" /\ err' = "AssertionError: direction"
  /\ UNCHANGED <<sde, build_err, ts_arg, ts, direction, save_traj, init_dist,
                 x_init, x, xs, zs, idx, res, n_p, n_q, calls, trace, ret>>

sample_traj_assert_increasing ==
  /\ pc = "assert_increasing"
  /\ IF _assert_increasing(ts_arg)
     THEN pc' = "init" /\ err' = err
     ELSE pc' = "failed" /\ err' = "AssertionError: ts must be strictly increasing"
  /\ UNCHANGED <<sde, build_err, ts_arg, ts, direction, save_traj, init_dist,
                 x_init, x, xs, zs, idx, res, n_p, n_q, calls, trace, ret>>

\* lines 65-70: the initial distribution, the flip, the sample, the buffers
sample_traj_init(x0) ==
  /\ pc = "init"
  /\ init_dist' = select_init_dist(sde, direction)
  /\ ts' = traversed_ts(ts_arg, direction)
  /\ x0 \in (IF init_dist' = "p" THEN PSamples ELSE QSamples)
  /\ x_init' = x0
  /\ x' = x0
  /\ n_p' = IF init_dist' = "p" THEN n_p + 1 ELSE n_p
  /\ n_q' = IF init_dist' = "q" THEN n_q + 1 ELSE n_q
  /\ xs' = IF save_traj THEN EmptyBuf(Len(ts')) ELSE NoBuf
  /\ zs' = IF save_traj THEN EmptyBuf(Len(ts')) ELSE NoBuf
  /\ idx' = 0
  /\ pc' = "loop"
  /\ UNCHANGED <<sde, build_err, ts_arg, direction, save_traj, res, err,
                 calls, trace, ret>>

\* one iteration of the loop; z is policy(x, t), noise the draw of dw
sample_traj_step(z, noise) ==
  /\ pc = "loop"
  /\ idx < Len(ts)
  /\ LET t   == ts[idx + 1]
         tn  == next_t(ts, idx, t)
         fv  == f(sde, x, t, direction)
         dta == step_dt_arg(ts, idx)
         dwv == dw(sde, x, None, noise)
         ti  == t_idx(idx, Len(ts), direction)
         pt  == propagate_time(t, tn)
         xn  == propagate(sde, pt, x, z, direction, Some(fv), Some(dwv),
                          dta, noise)
     IN  /\ xs' = IF save_traj THEN BufSet(xs, ti, x) ELSE xs
         /\ zs' = IF save_traj THEN BufSet(zs, ti, Val(z, 0)) ELSE zs
         /\ x' = xn
         /\ trace' = Append(trace,
                       [idx |-> idx, t |-> t, tn |-> tn, prop_t |-> pt,
                        x |-> x, z |-> z, noise |-> noise, dw |-> dwv,
                        t_idx |-> ti, wrote |-> save_traj,
                        dw_dt |-> dw_dt(sde, None),
                        dt |-> propagate_dt(sde, dta), x_next |-> xn])
         /\ calls' = [policy |-> calls.policy + 1,
                      randn |-> calls.randn + 1 + propagate_draws(Some(dwv)),
                      propagate |-> calls.propagate + 1]
  /\ idx' = idx + 1
  /\ UNCHANGED <<sde, build_err, pc, ts_arg, ts, direction, save_traj,
                 init_dist, x_init, res, err, n_p, n_q, ret>>

\* faulty variant: the loop leaves out the final grid index
sample_traj_return_early ==
  /\ pc = "loop"
  /\ idx = Len(ts) - 1
  /\ res' = [returned |-> TRUE, xs |-> xs, zs |-> zs, x_term |-> Some(x)]
  /\ pc' = "done"
  /\ UNCHANGED <<sde, build_err, ts_arg, ts, direction, save_traj, init_dist,
                 x_init, x, xs, zs, idx, err, n_p, n_q, calls, trace, ret>>

sample_traj_return ==
  /\ pc = "loop"
  /\ idx = Len(ts)
  /\ res' = [returned |-> TRUE, xs |-> xs, zs |-> zs, x_term |-> Some(x)]
  /\ pc' = "done"
  /\ UNCHANGED <<sde, build_err, ts_arg, ts, direction, save_traj, init_dist,
                 x_init, x, xs, zs, idx, err, n_p, n_q, calls, trace, ret>>

(* ----------------------- direct engine calls -------------------------- *)

call_f(xv, t, dir) ==
  /\ pc = "idle" /\ sde # NoSDE /\ ret = NoRet
  /\ ret' = [op |-> "f", dir |-> dir, t |-> t, raised |-> FALSE,
             out |-> Some(f(sde, xv, t, dir))]
  /\ UNCHANGED <<sde, build_err, pc, callVars>>

call_g(t) ==
  /\ pc = "idle" /\ sde # NoSDE /\ ret = NoRet
  /\ ret' = [op |-> "g", dir |-> "", t |-> t, raised |-> FALSE,
             out |-> Some(g(sde, t))]
  /\ UNCHANGED <<sde, build_err, pc, callVars>>

call_dw(xv, dtArg, noise) ==
  /\ pc = "idle" /\ sde # NoSDE /\ ret = NoRet
  /\ ret' = [op |-> "dw", dir |-> "", t |-> 0, raised |-> FALSE,
             out |-> Some(Val(dw(sde, xv, dtArg, noise), 0))]
  /\ UNCHANGED <<sde, build_err, pc, callVars>>

call_propagate(t, xv, z, dir, noise) ==
  /\ pc = "idle" /\ sde # NoSDE /\ ret = NoRet
  /\ ret' = [op |-> "propagate", dir |-> dir, t |-> t, raised |-> FALSE,
             out |-> Some(propagate(sde, t, xv, z, dir, None, None, None,
                                    noise))]
  /\ UNCHANGED <<sde, build_err, pc, callVars>>

\* the caller drops the outcome of the last call; the instance is kept
Reset ==
  /\ pc \in {"done", "failed", "idle"}
  /\ pc = "idle" => ret # NoRet
  /\ pc' = "idle"
  /\ ts_arg' = <<>> /\ ts' = <<>> /\ direction' = "" /\ save_traj' = FALSE
  /\ init_dist' = "" /\ x_init' = Zero /\ x' = Zero
  /\ xs' = NoBuf /\ zs' = NoBuf /\ idx' = 0
  /\ res' = NoRes /\ err' = "" /\ n_p' = 0 /\ n_q' = 0 /\ calls' = NoCalls
  /\ trace' = <<>>
  /\ ret' = NoRet
  /\ UNCHANGED <<sde, build_err>>

(* --------------------------- specification ---------------------------- *)

Init ==
  /\ sde = NoSDE /\ build_err = "" /\ pc = "idle"
  /\ ts_arg = <<>> /\ ts = <<>> /\ direction = "" /\ save_traj = FALSE
  /\ init_dist = "" /\ x_init = Zero /\ x = Zero
  /\ xs = NoBuf /\ zs = NoBuf /\ idx = 0
  /\ res = NoRes /\ err = "" /\ n_p = 0 /\ n_q = 0 /\ calls = NoCalls
  /\ trace = <<>>
  /\ ret = NoRet

Next ==
  \/ \E opt \in Opts : build(opt)
  \/ \E opt \in Opts, var \in VarArgs : NewSimpleSDE(opt, var)
  \/ \E tsv \in Grids, dir \in Directions, save \in BOOLEAN :
       sample_traj_call(tsv, dir, save)
  \/ sample_traj_assert_direction
  \/ sample_traj_assert_increasing
  \/ \E x0 \in PSamples \cup QSamples : sample_traj_init(x0)
  \/ \E z \in ZVals, noise \in Noises : sample_traj_step(z, noise)
  \/ sample_traj_return
  \/ \E xv \in PSamples \cup QSamples, t \in Times, dir \in Directions :
       call_f(xv, t, dir)
  \/ \E t \in Times : call_g(t)
  \/ \E xv \in PSamples, dtArg \in {None, Some(4)}, noise \in Noises :
       call_dw(xv, dtArg, noise)
  \/ \E t \in Times, xv \in PSamples, z \in ZVals, dir \in Directions,
        noise \in Noises : call_propagate(t, xv, z, dir, noise)
  \/ Reset

Spec == Init /\ [][Next]_vars

(* ------------------------------- claims ------------------------------- *)

StrictlyIncreasing(s) == \A i, j \in 1..Len(s) : i < j => s[i] < s[j]

KnownDirection(d) == d = "forward" \/ d = "backward"

\* the Euler-Maruyama step from xv at time t: zero drift, control z, step dt
\* and noise increment dwv
EMStep(xv, t, z, dt, dwv) == VAdd(xv, VScale(z * dt + dwv, g(sde, t)))

\* nothing of a sample_traj call beyond its arguments has been touched
Untouched ==
  /\ n_p = 0 /\ n_q = 0 /\ calls = NoCalls /\ trace = <<>>
  /\ init_dist = "" /\ xs = NoBuf /\ zs = NoBuf /\ res = NoRes

\* C1: a sample_traj call whose grid is not strictly increasing never gets
\* past its checks: no sample is drawn from p or q, the policy is not invoked,
\* no noise is drawn, no buffer is allocated or written, nothing is returned.
C1_NonIncreasingGridFailsUntouched ==
  (pc # "idle" /\ ~StrictlyIncreasing(ts_arg)) =>
     /\ pc \in {"assert_direction", "assert_increasing", "failed"}
     /\ Untouched

C1_Witness ==
  /\ pc = "failed" /\ KnownDirection(direction)
  /\ \E i \in 1..Len(ts_arg) - 1 : ts_arg[i + 1] = ts_arg[i]
  /\ err = "AssertionError: ts must be strictly increasing"

\* C2: after a sample_traj call with save_traj, every index i of the caller's
\* grid was written exactly once, by the iteration that visited grid time
\* ts[i], and xs[:, i], zs[:, i] hold the state and the policy output of that
\* iteration, forward and backward alike.
C2_BuffersInTimeOrder ==
  (pc = "done" /\ save_traj) =>
     /\ res.xs.alloc /\ res.zs.alloc
     /\ Len(res.xs.data) = Len(ts_arg) /\ Len(res.zs.data) = Len(ts_arg)
     /\ \A i \in 0..Len(ts_arg) - 1 :
          /\ Cardinality({j \in 1..Len(trace) :
                            trace[j].wrote /\ trace[j].t_idx = i}) = 1
          /\ \A j \in 1..Len(trace) :
               trace[j].t_idx = i =>
                  /\ trace[j].t = ts_arg[i + 1]
                  /\ res.xs.data[i + 1] = Some(trace[j].x)
                  /\ res.zs.data[i + 1] = Some(Val(trace[j].z, 0))

C2_Witness ==
  /\ pc = "done" /\ save_traj /\ direction = "backward" /\ Len(ts_arg) >= 2
  /\ trace[1].t = ts_arg[Len(ts_arg)] /\ trace[1].t_idx = Len(ts_arg) - 1
  /\ res.xs.data[1] # res.xs.data[Len(ts_arg)]

\* C3 as stated: at every non-final index the time handed to propagate is the
\* next traversed grid time ts[idx+1], at the final index it is ts[idx].
C3_PropagateAtNextTime ==
  \A j \in 1..Len(trace) :
     trace[j].prop_t = (IF trace[j].idx = Len(ts) - 1
                        THEN ts[trace[j].idx + 1] ELSE ts[trace[j].idx + 2])

\* C3 amended: at every index, final or not, the time handed to propagate is
\* the current traversed grid time ts[idx], and the diffusion of the step is
\* evaluated there.
C3_PropagateAtCurrentTime ==
  \A j \in 1..Len(trace) :
     /\ trace[j].prop_t = ts[trace[j].idx + 1]
     /\ trace[j].x_next = EMStep(trace[j].x, ts[trace[j].idx + 1], trace[j].z,
                                 trace[j].dt, trace[j].dw)

C3_Witness ==
  /\ sde.kind = "VESDE" /\ Len(trace) >= 1 /\ Len(ts) >= 2
  /\ trace[1].prop_t = ts[1] /\ trace[1].tn = ts[2]
  /\ g(sde, ts[1]) # g(sde, ts[2])

\* C4: f returns _f(x,t) for 'forward', -_f(x,t) for 'backward', and fails
\* for every other direction.
C4_FFailsOnUnknownDirection ==
  ret.op = "f" =>
     /\ ret.dir = "forward" => ~ret.raised /\ ret.out = Some(Zero)
     /\ ret.dir = "backward" => ~ret.raised /\ ret.out = Some(VScale(-1, Zero))
     /\ ~KnownDirection(ret.dir) => ret.raised

\* C5: with SimpleSDE of var = 0 and a forward policy, the state never leaves
\* the initial sample: every recorded state and the returned final state
\* equal it, whatever the policy and the noise draws give.
C5_ZeroDiffusionKeepsState ==
  (sde.kind = "SimpleSDE" /\ sde.var = 0 /\ direction = "forward"
     /\ pc \in {"loop", "done"}) =>
     /\ x = x_init
     /\ \A i \in 1..Len(xs.data) : xs.data[i] \in {None, Some(x_init)}
     /\ pc = "done" =>
          /\ res.x_term = Some(x_init)
          /\ save_traj => \A i \in 1..Len(ts_arg) : res.xs.data[i] = Some(x_init)

C5_Witness ==
  /\ sde.kind = "SimpleSDE" /\ sde.var = 0 /\ direction = "forward"
  /\ pc = "done" /\ save_traj /\ Len(ts_arg) >= 2
  /\ \E j \in 1..Len(trace) : trace[j].z # 0
  /\ res.x_term = Some(x_init) /\ x_init \in PSamples

\* C6: build constructs VESDE for 've', VESDE2 for 've2', SimpleSDE for
\* 'simple', and for any other name raises and leaves no instance.
C6_BuildByName ==
  [][\A opt \in Opts :
       build(opt) =>
          CASE opt.sde_type = "ve" ->
                 sde'.kind = "VESDE" /\ build_err' = ""
            [] opt.sde_type = "ve2" ->
                 sde'.kind = "VESDE2" /\ build_err' = ""
            [] opt.sde_type = "simple" ->
                 sde'.kind = "SimpleSDE" /\ build_err' = ""
            [] OTHER -> sde' = NoSDE /\ build_err' # ""]_vars

C6_Witness == sde = NoSDE /\ build_err = "TypeError"

\* C7: a sample_traj call whose policy direction is neither 'forward' nor
\* 'backward' fails at the direction check: the grid is not checked, nothing
\* is sampled, the policy is not invoked, q is not selected.
C7_UnknownDirectionFailsFirst ==
  (pc # "idle" /\ ~KnownDirection(direction)) =>
     /\ pc \in {"assert_direction", "failed"}
     /\ pc = "failed" => err = "AssertionError: direction"
     /\ Untouched

C7_Witness ==
  /\ pc = "failed" /\ direction = "sideways" /\ ~StrictlyIncreasing(ts_arg)
  /\ err = "AssertionError: direction"

\* C8: a sample_traj call that gets past its checks draws exactly one initial
\* batch, from p if forward and from q if backward, never from the other; a
\* call that has not passed both checks has drawn none.
C8_OneInitialSample ==
  /\ pc \in {"loop", "done"} =>
       /\ KnownDirection(direction) /\ StrictlyIncreasing(ts_arg)
       /\ direction = "forward" =>
            n_p = 1 /\ n_q = 0 /\ init_dist = "p" /\ x_init \in PSamples
       /\ direction = "backward" =>
            n_p = 0 /\ n_q = 1 /\ init_dist = "q" /\ x_init \in QSamples
  /\ pc \notin {"loop", "done"} => n_p = 0 /\ n_q = 0

C8_Witness ==
  /\ pc = "done" /\ direction = "backward" /\ n_q = 1 /\ n_p = 0
  /\ Len(ts_arg) >= 1

\* the grid index the loop traverses last
LastSlot == IF direction = "forward" THEN Len(ts_arg) - 1 ELSE 0

\* the grid index the loop traverses first
FirstSlot == IF direction = "forward" THEN 0 ELSE Len(ts_arg) - 1

\* C9: on a grid of n values sample_traj makes n policy calls, n noise draws
\* and n propagate steps; each slot is written with the state before that
\* iteration's step, so the first traversed slot holds the initial sample and
\* the returned x_term is one Euler-Maruyama step past the state recorded at
\* the last traversed index.
C9_OneStepPerGridIndex ==
  pc = "done" =>
     LET n == Len(ts_arg)
     IN  /\ calls = [policy |-> n, randn |-> n, propagate |-> n]
         /\ Len(trace) = n
         /\ \A j \in 1..Len(trace) :
              /\ trace[j].idx = j - 1
              /\ trace[j].x = (IF j = 1 THEN x_init ELSE trace[j - 1].x_next)
         /\ (n >= 1 /\ save_traj) =>
              /\ res.xs.data[FirstSlot + 1] = Some(x_init)
              /\ res.x_term =
                   Some(EMStep(res.xs.data[LastSlot + 1][1],
                               ts_arg[LastSlot + 1],
                               res.zs.data[LastSlot + 1][1].c,
                               sde.dt, trace[n].dw))
         /\ n >= 1 => res.x_term = Some(trace[n].x_next)
         /\ n = 0 => res.x_term = Some(x_init)

C9_Witness ==
  /\ pc = "done" /\ save_traj /\ Len(ts_arg) >= 2
  /\ calls.propagate = Len(ts_arg)
  /\ res.x_term # res.xs.data[LastSlot + 1]
  /\ res.xs.data[FirstSlot + 1] = Some(x_init)

\* every step of the running call used the construction-time dt
StepsUseInstanceDt ==
  /\ sde # NoSDE => sde.dt = sde.opt[1].T \div sde.opt[1].interval
  /\ \A j \in 1..Len(trace) :
       /\ trace[j].dt = sde.dt
       /\ trace[j].dw_dt = sde.dt
       /\ trace[j].dw = trace[j].noise * Sqrt(sde.dt)
       /\ trace[j].x_next = EMStep(trace[j].x, trace[j].prop_t, trace[j].z,
                                   sde.dt, trace[j].noise * Sqrt(sde.dt))

\* C10: every step of sample_traj uses dt = T/interval of the instance, for
\* the control increment and for the noise scale, whatever the grid's spacing
\* and length; and once constructed the instance (dt, opt, p, q) is changed by
\* no call.
C10_FixedStepSize ==
  /\ []StepsUseInstanceDt
  /\ [][sde # NoSDE => sde' = sde]_vars

C10_Witness ==
  /\ pc = "done" /\ sde.dt = 4 /\ Len(ts_arg) >= 2
  /\ \E j \in 1..Len(trace) :
       trace[j].tn - trace[j].t # sde.dt /\ trace[j].dt = sde.dt
  /\ trace[1].x_next # trace[1].x

====
